---- MODULE Spec2Model ----
(***************************************************************************)
(* Ripple lifecycle manager (RippleManager) and per-frame driver of        *)
(* src/src/main.js.                                                        *)
(*                                                                         *)
(* Units.  Timestamps are integral milliseconds, as the callers pass them. *)
(* The code converts to seconds with timestamp / 1000.0; the model keeps   *)
(* startTime and currentTime in thousandths of a second, so the conversion *)
(* is a change of unit only.  Coordinates are in thousandths of the canvas *)
(* side.  Strength is kept in units of 1 / StrengthOne, with StrengthOne = *)
(* maxAge * MsPerSecond, so that 1.0 - age / maxAge is the integer         *)
(* StrengthOne - age.  Double arithmetic is taken to be exact; the         *)
(* narrowing store into the Float32Array is modelled by F32.               *)
(***************************************************************************)
EXTENDS Integers, Sequences, FiniteSets, TLC

\* Constructor argument maxRipples (the application uses the default, 128).
maxRipples == 2

\* this.minRippleInterval, in ms.
minRippleInterval == 25

\* this.maxAge, in seconds.
maxAge == 2

\* The divisor of timestamp / 1000.0.
MsPerSecond == 1000

\* Strength 1.0 in model units.
StrengthOne == maxAge * MsPerSecond

\* const STRENGTH_THRESHOLD = 0.01, in model units.
STRENGTH_THRESHOLD == StrengthOne \div 100

Slots == 0 .. (maxRipples - 1)

\* Timestamps the callers pass (ms): a cluster at the start of the session and
\* a cluster about maxAge later.  Their differences hit both sides of the rate
\* limit (15, 25, 40) and the ages 1975 (strength above the threshold), 1990
\* (strength below it, age below maxAge), 2000 (= maxAge) and 2015.  No age
\* puts the strength on the threshold itself, where the rounding of the
\* double division would decide.
Instants == {0, 25, 50, 2000, 2025, 2040}

\* Normalised pointer positions (x, y), in thousandths.
Positions == {<<500, 500>>, <<300, 700>>}

VARIABLES
    rm,          \* the RippleManager object
    isMouseDown, \* init(): let isMouseDown
    lastMouse,   \* init(): <<lastMouseX, lastMouseY>>
    now,         \* performance.now() at the last handler
    frameTime,   \* timestamp of the last animation frame
    gpu,         \* device.queue: buffers written and draws submitted
    lastOp,      \* the call or handler that ran last, with its outcome
    app,         \* init(): where it is, console output, pending frame request
    inserts,     \* log of the addRipple calls of an insert-only run
    scen         \* progress through the one-ripple scenario

vars == <<rm, isMouseDown, lastMouse, now, frameTime, gpu, app, lastOp, inserts, scen>>

----------------------------------------------------------------------------
\* Float32Array element store.

Abs(n) == IF n < 0 THEN -n ELSE n

RECURSIVE GCD(_, _)
GCD(a, b) == IF b = 0 THEN a ELSE GCD(b, a % b)

IsPowerOfTwo(q) == \E k \in 0 .. 12 : q = 2 ^ k

\* n / den is a binary fraction, so a float32 holds it exactly (the values of
\* the model are far inside the 24-bit significand).
IsDyadic(n, den) == IsPowerOfTwo(den \div GCD(den, Abs(n)))

\* The float32 nearest to n / den: exact tells whether it equals n / den.
F32(n, den) == [num |-> n, exact |-> IsDyadic(n, den)]

F32Zero == F32(0, 1)

----------------------------------------------------------------------------
\* RippleManager

NewRipple == [x |-> 0, y |-> 0, startTime |-> 0, strength |-> 0, active |-> FALSE]

NewRippleData == [x |-> F32Zero, y |-> F32Zero, strength |-> F32Zero, startTime |-> F32Zero]

NewRippleManager ==
    [ripples           |-> [i \in Slots |-> NewRipple],
     nextRippleIndex   |-> 0,
     lastRippleTime    |-> 0,
     activeRippleCount |-> 0,
     rippleData        |-> [i \in Slots |-> NewRippleData]]

\* Variant: the timestamp is compared with the interval, not the time since
\* the last ripple.
RateLimitedAbsolute(m, timestamp) == timestamp < minRippleInterval

RateLimited(m, timestamp) == timestamp - m.lastRippleTime < minRippleInterval

\* Variant: the insertion looks for the first inactive slot before it falls
\* back on the cursor.
AddRippleFirstInactive(m, x, y, timestamp) ==
    LET free == {i \in Slots : ~m.ripples[i].active}
        slot == IF free = {} THEN m.nextRippleIndex
                ELSE CHOOSE i \in free : \A j \in free : i <= j
    IN  IF timestamp - m.lastRippleTime < minRippleInterval
        THEN m
        ELSE [m EXCEPT
                !.ripples[slot] =
                    [x |-> x, y |-> y, startTime |-> timestamp,
                     strength |-> StrengthOne, active |-> TRUE],
                !.nextRippleIndex = (slot + 1) % maxRipples,
                !.lastRippleTime = timestamp]

\* Variant: the cursor stops at the last slot instead of wrapping.
AddRippleSaturating(m, x, y, timestamp) ==
    IF timestamp - m.lastRippleTime < minRippleInterval
    THEN m
    ELSE [m EXCEPT
            !.ripples[m.nextRippleIndex] =
                [x |-> x, y |-> y, startTime |-> timestamp,
                 strength |-> StrengthOne, active |-> TRUE],
            !.nextRippleIndex =
                IF m.nextRippleIndex + 1 < maxRipples
                THEN m.nextRippleIndex + 1 ELSE m.nextRippleIndex,
            !.lastRippleTime = timestamp]

AddRipple(m, x, y, timestamp) ==
    IF RateLimited(m, timestamp)
    THEN m
    ELSE [m EXCEPT
            !.ripples[m.nextRippleIndex] =
                [x |-> x, y |-> y, startTime |-> timestamp,
                 strength |-> StrengthOne, active |-> TRUE],
            !.nextRippleIndex = (m.nextRippleIndex + 1) % maxRipples,
            !.lastRippleTime = timestamp]

\* rippleData[baseIndex .. baseIndex + 3] = x, y, strength, startTime
PackRipple(ripple) ==
    [x         |-> F32(ripple.x, MsPerSecond),
     y         |-> F32(ripple.y, MsPerSecond),
     strength  |-> F32(ripple.strength, StrengthOne),
     startTime |-> F32(ripple.startTime, MsPerSecond)]

Expired(age) == age >= maxAge * MsPerSecond

\* Variant: the decay is returned in place of what is left of the strength.
StrengthDecayOnly(age) == age

Strength(age) == StrengthOne - age

AboveThreshold(strength) == strength > STRENGTH_THRESHOLD

\* Variant: an expired record keeps the strength it had.
UpdateSlotKeepStrength(m, i, currentTime) ==
    LET ripple == m.ripples[i]
        age    == currentTime - ripple.startTime
        aged   == [ripple EXCEPT !.strength = Strength(age)]
    IN  IF ~ripple.active
        THEN m
        ELSE IF Expired(age)
        THEN [m EXCEPT !.ripples[i] = [ripple EXCEPT !.active = FALSE]]
        ELSE IF AboveThreshold(aged.strength)
        THEN [m EXCEPT !.ripples[i] = aged,
                       !.rippleData[m.activeRippleCount] = PackRipple(aged),
                       !.activeRippleCount = m.activeRippleCount + 1]
        ELSE [m EXCEPT !.ripples[i] = [aged EXCEPT !.active = FALSE]]

\* Variant: the decay is taken off the record's current strength.
UpdateSlotCumulative(m, i, currentTime) ==
    LET ripple == m.ripples[i]
        age    == currentTime - ripple.startTime
        aged   == [ripple EXCEPT !.strength = ripple.strength - age]
    IN  IF ~ripple.active
        THEN m
        ELSE IF Expired(age)
        THEN [m EXCEPT !.ripples[i] = [ripple EXCEPT !.active = FALSE, !.strength = 0]]
        ELSE IF AboveThreshold(aged.strength)
        THEN [m EXCEPT !.ripples[i] = aged,
                       !.rippleData[m.activeRippleCount] = PackRipple(aged),
                       !.activeRippleCount = m.activeRippleCount + 1]
        ELSE [m EXCEPT !.ripples[i] = [aged EXCEPT !.active = FALSE]]

\* One iteration of the first loop of update, on slot i.
UpdateSlot(m, i, currentTime) ==
    LET ripple == m.ripples[i]
        age    == currentTime - ripple.startTime
        aged   == [ripple EXCEPT !.strength = Strength(age)]
    IN  IF ~ripple.active
        THEN m
        ELSE IF Expired(age)
        THEN [m EXCEPT !.ripples[i] = [ripple EXCEPT !.active = FALSE, !.strength = 0]]
        ELSE IF AboveThreshold(aged.strength)
        THEN [m EXCEPT !.ripples[i] = aged,
                       !.rippleData[m.activeRippleCount] = PackRipple(aged),
                       !.activeRippleCount = m.activeRippleCount + 1]
        ELSE [m EXCEPT !.ripples[i] = [aged EXCEPT !.active = FALSE]]

RECURSIVE UpdatePass(_, _, _)

\* Variant: the scan runs from the last slot down to the first.
RECURSIVE UpdatePassDescending(_, _, _)
UpdatePassDescending(m, i, currentTime) ==
    IF i >= maxRipples
    THEN m
    ELSE UpdatePassDescending(UpdateSlot(m, maxRipples - 1 - i, currentTime),
                              i + 1, currentTime)

UpdatePass(m, i, currentTime) ==
    IF i >= maxRipples
    THEN m
    ELSE UpdatePass(UpdateSlot(m, i, currentTime), i + 1, currentTime)

\* Variant: the trailing slots are not cleared.
ClearPassNone(m, i) == m

RECURSIVE ClearPass(_, _)
ClearPass(m, i) ==
    IF i >= maxRipples
    THEN m
    ELSE ClearPass([m EXCEPT !.rippleData[i].strength = F32Zero], i + 1)

\* Variant: activeRippleCount is not reset before the scan.
UpdateKeepCount(m, timestamp) ==
    LET scanned == UpdatePass(m, 0, timestamp)
    IN  ClearPass(scanned, scanned.activeRippleCount)

Update(m, timestamp) ==
    LET scanned == UpdatePass([m EXCEPT !.activeRippleCount = 0], 0, timestamp)
    IN  ClearPass(scanned, scanned.activeRippleCount)

----------------------------------------------------------------------------
\* init(): pointer handlers, device queue and the animation frame.

\* canvas.width / canvas.height: updateCanvasSize keeps the 4 / 3 target ratio.
AspectRatio == F32(4, 3)

NewQueue ==
    [rippleUniformBuffer |-> [i \in Slots |-> NewRippleData],
     timeUniformBuffer   |-> <<F32Zero, F32Zero, F32Zero, F32Zero>>,
     drawn               |-> <<>>]

\* The state a handler works on: the ripple manager, the device queue and the
\* calls made so far by the handler.
Context(m, q) == [rm |-> m, gpu |-> q, calls |-> <<>>]

Called(c, name) == [c EXCEPT !.calls = Append(@, name)]

\* Variant: the frame inserts whether the pointer is pressed or not.
FrameAddRippleAlways(c, down, pos, timestamp) ==
    Called([c EXCEPT !.rm = AddRipple(c.rm, pos[1], pos[2], timestamp)], "addRipple")

\* if (isMouseDown) rippleManager.addRipple(lastMouseX, lastMouseY, timestamp)
FrameAddRipple(c, down, pos, timestamp) ==
    IF down
    THEN Called([c EXCEPT !.rm = AddRipple(c.rm, pos[1], pos[2], timestamp)], "addRipple")
    ELSE c

\* const rippleResult = rippleManager.update(timestamp)
FrameUpdate(c, timestamp) ==
    Called([c EXCEPT !.rm = Update(c.rm, timestamp)], "update")

\* device.queue.writeBuffer(rippleUniformBuffer, 0, rippleResult.data)
FrameWriteRipples(c) ==
    Called([c EXCEPT !.gpu.rippleUniformBuffer = c.rm.rippleData], "writeRipples")

\* device.queue.writeBuffer(timeUniformBuffer, 0, timeUniforms)
FrameWriteUniforms(c, timestamp) ==
    Called([c EXCEPT !.gpu.timeUniformBuffer =
                        <<F32(timestamp, MsPerSecond), AspectRatio,
                          F32(c.rm.activeRippleCount, 1), F32Zero>>],
           "writeUniforms")

\* device.queue.submit: the draw reads the two buffers as the queue holds them
\* when the command buffer is submitted.
FrameSubmit(c) ==
    Called([c EXCEPT !.gpu.drawn =
                        <<[ripples  |-> c.gpu.rippleUniformBuffer,
                           uniforms |-> c.gpu.timeUniformBuffer,
                           pool     |-> c.rm.ripples]>>],
           "submit")

\* Variant: the frame ages the pool before it inserts.
FrameBodyUpdateFirst(c, down, pos, timestamp) ==
    FrameSubmit(
      FrameWriteUniforms(
        FrameWriteRipples(
          FrameAddRipple(
            FrameUpdate(c, timestamp), down, pos, timestamp)), timestamp))

\* function frame(timestamp)
FrameBody(c, down, pos, timestamp) ==
    FrameSubmit(
      FrameWriteUniforms(
        FrameWriteRipples(
          FrameUpdate(
            FrameAddRipple(c, down, pos, timestamp), timestamp)), timestamp))

----------------------------------------------------------------------------
\* init() and initWebGPU(): startup.

\* rippleManager before new RippleManager() has run.
NoRippleManager == [ripples |-> <<>>]

\* init() suspended at an await, running (handlers registered and the first
\* frame requested) or failed (rejected and caught by init().catch).
NewApp(gpuSupported) ==
    [pc |-> "initWebGPU", gpuSupported |-> gpuSupported, console |-> <<>>,
     rafPending |-> FALSE]

\* Variant: the rejection handler starts init() again.
RejectedRetry(a, error) ==
    [a EXCEPT !.pc = "initWebGPU", !.console = <<error>>]

\* init().catch(console.error)
Rejected(a, error) ==
    [a EXCEPT !.pc = "failed", !.console = Append(@, error)]

\* if (!navigator.gpu) throw ...; await navigator.gpu.requestAdapter()
InitWebGPU(a) ==
    IF ~a.gpuSupported
    THEN Rejected(a, "WebGPU not supported")
    ELSE [a EXCEPT !.pc = "requestAdapter"]

\* if (!adapter) throw ...; await adapter.requestDevice()
AdapterReturned(a, adapter) ==
    IF ~adapter
    THEN Rejected(a, "No adapter found")
    ELSE [a EXCEPT !.pc = "requestDevice"]

\* requestDevice settles; the canvas is configured; await loadShaders()
DeviceReturned(a, ok) ==
    IF ~ok
    THEN Rejected(a, "requestDevice rejected")
    ELSE [a EXCEPT !.pc = "loadShaders"]

\* fetch of the shader settles; the buffers are created;
\* await createPipeline(...)
ShadersLoaded(a, ok) ==
    IF ~ok
    THEN Rejected(a, "fetch rejected")
    ELSE [a EXCEPT !.pc = "createPipeline"]

\* createPipeline settles; then new RippleManager(), the handlers and
\* requestAnimationFrame(frame).
PipelineCreated(a, ok) ==
    IF ~ok
    THEN Rejected(a, "createPipeline rejected")
    ELSE [a EXCEPT !.pc = "running", !.rafPending = TRUE]

\* Variant: frame returns without requesting the next frame.
RequestAnimationFrameDropped(a) == a

\* requestAnimationFrame(frame) at the end of frame
RequestAnimationFrame(a) == [a EXCEPT !.rafPending = TRUE]

\* The browser takes the pending callback off its list and calls it.
RunAnimationFrame(a) == [a EXCEPT !.rafPending = FALSE]

RunningApp ==
    [pc |-> "running", gpuSupported |-> TRUE, console |-> <<>>,
     rafPending |-> TRUE]

----------------------------------------------------------------------------
\* wavy-grid.wgsl: the ripple term of the fragment stage.  Lengths are in
\* thousandths of the unit square, times in ms, as in the buffers above.

\* const RIPPLE_SPEED: f32 = 0.1 (units per second), in thousandths per second.
RIPPLE_SPEED == 100

\* const MAX_RIPPLE_RADIUS: f32 = 0.3
MAX_RIPPLE_RADIUS == 300

\* const MIN_RIPPLE_RADIUS: f32 = 0.02
MIN_RIPPLE_RADIUS == 20

\* The denominator of uniforms.aspect_ratio (canvas.width / canvas.height).
AspectDen == 3

\* Points of the quad the fragment stage is evaluated at.
SampleUVs == {<<500, 600>>, <<300, 600>>, <<500, 500>>}

Min(a, b) == IF a <= b THEN a ELSE b

\* (AspectDen * distance(adjustedUV, adjustedPosition)) squared
DistanceSq(uv, ripple, uniforms) ==
    LET dx == uniforms[2].num * (uv[1] - ripple.x.num)
        dy == AspectDen * (uv[2] - ripple.y.num)
    IN  dx * dx + dy * dy

\* let age = uniforms.time - ripple.startTime
RippleAge(ripple, uniforms) == uniforms[1].num - ripple.startTime.num

\* radius = min(age * RIPPLE_SPEED, MAX_RIPPLE_RADIUS), as the time (ms) the
\* front needs to travel it.
RadiusTravel(age) == Min(age, (MAX_RIPPLE_RADIUS * MsPerSecond) \div RIPPLE_SPEED)

\* dist > radius
BeyondRadius(uv, ripple, uniforms) ==
    LET r == RadiusTravel(RippleAge(ripple, uniforms))
        msPerUnit == MsPerSecond \div RIPPLE_SPEED
    IN  \/ r < 0
        \/ DistanceSq(uv, ripple, uniforms)
             > ((AspectDen * r) * (AspectDen * r)) \div (msPerUnit * msPerUnit)

\* dist < MIN_RIPPLE_RADIUS
WithinMinRadius(uv, ripple, uniforms) ==
    DistanceSq(uv, ripple, uniforms)
      < (AspectDen * MIN_RIPPLE_RADIUS) * (AspectDen * MIN_RIPPLE_RADIUS)

\* The product the function returns when it does not exit early: it is kept
\* as the term it is computed from.
WaveTerm(uv, ripple, uniforms) ==
    [uv |-> uv, position |-> <<ripple.x, ripple.y>>, strength |-> ripple.strength,
     age |-> RippleAge(ripple, uniforms)]

\* Variant: the early exit tests the geometry only.
CalculateRippleGeometryOnly(uv, ripple, uniforms) ==
    IF BeyondRadius(uv, ripple, uniforms) \/ WithinMinRadius(uv, ripple, uniforms)
    THEN <<>>
    ELSE <<WaveTerm(uv, ripple, uniforms)>>

\* fn calculateRipple(uv, ripple) -> f32: <<>> is 0.0, <<term>> the product.
CalculateRipple(uv, ripple, uniforms) ==
    IF \/ BeyondRadius(uv, ripple, uniforms)
       \/ WithinMinRadius(uv, ripple, uniforms)
       \/ ripple.strength.num <= 0
    THEN <<>>
    ELSE <<WaveTerm(uv, ripple, uniforms)>>

\* for (var i = 0; i < n; i++) { total += calculateRipple(uv, ripples[i]); }
\* The total is the sequence of the terms added to 0.0, in order: adding 0.0
\* leaves it as it is.
RECURSIVE RippleLoop(_, _, _, _, _)
RippleLoop(total, uv, draw, i, n) ==
    IF i >= n
    THEN total
    ELSE RippleLoop(total \o CalculateRipple(uv, draw.ripples[i], draw.uniforms),
                    uv, draw, i + 1, n)

\* totalRippleDistortion of fragmentMain: the loop over the whole array.
TotalRippleDistortion(uv, draw) == RippleLoop(<<>>, uv, draw, 0, maxRipples)

----------------------------------------------------------------------------
\* Observers of the runs the scenarios are about.

NoLog == [on |-> FALSE, calls |-> <<>>]

\* The addRipple calls since construction, while no update has run and each
\* call came at least minRippleInterval after the call before it.
LogInsert(log, x, y, t) ==
    IF log.on
       /\ (log.calls = <<>> \/ t - log.calls[Len(log.calls)].t >= minRippleInterval)
       /\ Len(log.calls) < maxRipples + 2
    THEN [log EXCEPT !.calls = Append(@, [x |-> x, y |-> y, t |-> t])]
    ELSE NoLog

\* Progress through: insert (0.5, 0.5) at t = 0; tick at 0; tick at maxAge.
\* 4 stands for any other run.
ScenInsert(s, x, y, t) ==
    IF s = 0 /\ x = 500 /\ y = 500 /\ t = 0 THEN 1 ELSE 4

ScenUpdate(s, t) ==
    IF s = 1 /\ t = 0 THEN 2
    ELSE IF s = 2 /\ t = maxAge * MsPerSecond THEN 3
    ELSE 4

----------------------------------------------------------------------------

\* The step from manager m to manager n accepted an insertion: an accepted
\* addRipple is later than lastRippleTime by minRippleInterval or more and
\* stores its timestamp there.
Accepted(m, n) == n.lastRippleTime # m.lastRippleTime

Updates(op) == op \in {"update", "frame"}

\* What ran last: the method or handler, the timestamp and position it was
\* given, the calls it made in order, whether it is an update that follows
\* an update with the same timestamp, the timestamp of the latest update
\* (updated) and, right after an update, that of the update before it (prev);
\* -1 stands for none.  m is the ripple manager as the step leaves it:
\* inserted says that the step accepted an insertion, held that the pointer
\* has been pressed, without a pointermove, since the latest accepted
\* insertion, heldBefore what held was before the step.
Ran(op, t, pos, calls, m) ==
    [op |-> op, t |-> t, x |-> pos[1], y |-> pos[2], calls |-> calls,
     again |-> (op = "update" /\ lastOp.op = "update" /\ lastOp.t = t),
     updated |-> IF Updates(op) THEN t ELSE lastOp.updated,
     prev |-> IF Updates(op) THEN lastOp.updated ELSE -1,
     inserted |-> Accepted(rm, m),
     held |-> IF Accepted(rm, m)
              THEN op = "pointerdown" \/ (op = "frame" /\ isMouseDown)
              ELSE lastOp.held /\ op \notin {"pointermove", "pointerup", "pointerleave"},
     heldBefore |-> lastOp.held]

Init ==
    /\ rm = NewRippleManager
    /\ isMouseDown = FALSE
    /\ lastMouse = <<0, 0>>
    /\ now = 0
    /\ frameTime = 0
    /\ gpu = NewQueue
    /\ app = RunningApp
    /\ lastOp = [op |-> "new", t |-> 0, x |-> 0, y |-> 0, calls |-> <<>>,
                 again |-> FALSE, updated |-> -1, prev |-> -1,
                 inserted |-> FALSE, held |-> FALSE, heldBefore |-> FALSE]
    /\ inserts = [on |-> TRUE, calls |-> <<>>]
    /\ scen = 0

\* rippleManager.addRipple(x, y, timestamp)
AddRippleCall(x, y, t) ==
    /\ rm' = AddRipple(rm, x, y, t)
    /\ lastOp' = Ran("addRipple", t, <<x, y>>, <<"addRipple">>, rm')
    /\ inserts' = LogInsert(inserts, x, y, t)
    /\ scen' = ScenInsert(scen, x, y, t)
    /\ UNCHANGED <<isMouseDown, lastMouse, now, frameTime, gpu, app>>

\* rippleManager.update(timestamp)
UpdateCall(t) ==
    /\ rm' = Update(rm, t)
    /\ lastOp' = Ran("update", t, <<0, 0>>, <<"update">>, rm')
    /\ inserts' = NoLog
    /\ scen' = ScenUpdate(scen, t)
    /\ UNCHANGED <<isMouseDown, lastMouse, now, frameTime, gpu, app>>

\* The ledger driven through its public methods, with any timestamps.
Next ==
    \/ \E p \in Positions, t \in Instants : AddRippleCall(p[1], p[2], t)
    \/ \E t \in Instants : UpdateCall(t)

Spec == Init /\ [][Next]_vars

----------------------------------------------------------------------------
\* The application: pointer handlers and animation frames, one at a time.

\* canvas.addEventListener('pointerdown', ...), run at performance.now() = t
PointerDown(pos, t) ==
    /\ t >= now
    /\ now' = t
    /\ isMouseDown' = TRUE
    /\ lastMouse' = pos
    /\ rm' = AddRipple(rm, pos[1], pos[2], t)
    /\ lastOp' = Ran("pointerdown", t, pos, <<"addRipple">>, rm')
    /\ inserts' = LogInsert(inserts, pos[1], pos[2], t)
    /\ scen' = ScenInsert(scen, pos[1], pos[2], t)
    /\ UNCHANGED <<frameTime, gpu, app>>

\* canvas.addEventListener('pointermove', ...)
PointerMove(pos) ==
    /\ lastMouse' = IF isMouseDown THEN pos ELSE lastMouse
    /\ lastOp' = Ran("pointermove", now, pos, <<>>, rm)
    /\ UNCHANGED <<rm, isMouseDown, now, frameTime, gpu, app, inserts, scen>>

\* canvas.addEventListener('pointerup', ...)
PointerUp ==
    /\ isMouseDown' = FALSE
    /\ lastOp' = Ran("pointerup", now, <<0, 0>>, <<>>, rm)
    /\ UNCHANGED <<rm, lastMouse, now, frameTime, gpu, app, inserts, scen>>

\* canvas.addEventListener('pointerleave', ...)
PointerLeave ==
    /\ isMouseDown' = FALSE
    /\ lastOp' = Ran("pointerleave", now, <<0, 0>>, <<>>, rm)
    /\ UNCHANGED <<rm, lastMouse, now, frameTime, gpu, app, inserts, scen>>

\* The pending frame callback runs at performance.now() = t with the frame's
\* timestamp, which is not later than t and not earlier than the timestamp of
\* the frame before.
Frame(timestamp, t) ==
    /\ app.rafPending
    /\ app' = RequestAnimationFrame(RunAnimationFrame(app))
    /\ t >= now
    /\ timestamp >= frameTime
    /\ timestamp <= t
    /\ now' = t
    /\ frameTime' = timestamp
    /\ LET c == FrameBody(Context(rm, gpu), isMouseDown, lastMouse, timestamp)
       IN  /\ rm' = c.rm
           /\ gpu' = c.gpu
           /\ lastOp' = Ran("frame", timestamp, lastMouse, c.calls, c.rm)
    /\ inserts' = NoLog
    /\ scen' = ScenUpdate(IF isMouseDown
                          THEN ScenInsert(scen, lastMouse[1], lastMouse[2], timestamp)
                          ELSE scen, timestamp)
    /\ UNCHANGED <<isMouseDown, lastMouse>>

NextApp ==
    \/ \E p \in Positions, t \in Instants : PointerDown(p, t)
    \/ \E p \in Positions : PointerMove(p)
    \/ PointerUp
    \/ PointerLeave
    \/ \E timestamp \in Instants, t \in Instants : Frame(timestamp, t)

SpecApp == Init /\ [][NextApp]_vars

----------------------------------------------------------------------------
\* The page from the call of init() on.

InitBoot ==
    /\ rm = NoRippleManager
    /\ isMouseDown = FALSE
    /\ lastMouse = <<0, 0>>
    /\ now = 0
    /\ frameTime = 0
    /\ gpu = NewQueue
    /\ app \in {NewApp(gpuSupported) : gpuSupported \in BOOLEAN}
    /\ lastOp = [op |-> "new", t |-> 0, x |-> 0, y |-> 0, calls |-> <<>>,
                 again |-> FALSE, updated |-> -1, prev |-> -1,
                 inserted |-> FALSE, held |-> FALSE, heldBefore |-> FALSE]
    /\ inserts = [on |-> TRUE, calls |-> <<>>]
    /\ scen = 0

StartInitWebGPU ==
    /\ app.pc = "initWebGPU"
    /\ app' = InitWebGPU(app)
    /\ UNCHANGED <<rm, isMouseDown, lastMouse, now, frameTime, gpu, lastOp, inserts, scen>>

RequestAdapterSettles(adapter) ==
    /\ app.pc = "requestAdapter"
    /\ app' = AdapterReturned(app, adapter)
    /\ UNCHANGED <<rm, isMouseDown, lastMouse, now, frameTime, gpu, lastOp, inserts, scen>>

RequestDeviceSettles(ok) ==
    /\ app.pc = "requestDevice"
    /\ app' = DeviceReturned(app, ok)
    /\ UNCHANGED <<rm, isMouseDown, lastMouse, now, frameTime, gpu, lastOp, inserts, scen>>

LoadShadersSettles(ok) ==
    /\ app.pc = "loadShaders"
    /\ app' = ShadersLoaded(app, ok)
    /\ UNCHANGED <<rm, isMouseDown, lastMouse, now, frameTime, gpu, lastOp, inserts, scen>>

CreatePipelineSettles(ok) ==
    /\ app.pc = "createPipeline"
    /\ app' = PipelineCreated(app, ok)
    /\ rm' = IF app'.pc = "running" THEN NewRippleManager ELSE rm
    /\ UNCHANGED <<isMouseDown, lastMouse, now, frameTime, gpu, lastOp, inserts, scen>>

Running ==
    /\ app.pc = "running"
    /\ NextApp

NextBoot ==
    \/ StartInitWebGPU
    \/ \E adapter \in BOOLEAN : RequestAdapterSettles(adapter)
    \/ \E ok \in BOOLEAN : RequestDeviceSettles(ok)
    \/ \E ok \in BOOLEAN : LoadShadersSettles(ok)
    \/ \E ok \in BOOLEAN : CreatePipelineSettles(ok)
    \/ Running

SpecBoot == InitBoot /\ [][NextBoot]_vars

----------------------------------------------------------------------------
\* The running page while frames keep coming.

LastInstant == CHOOSE t \in Instants : \A u \in Instants : u <= t

\* A frame timestamp by which every ripple inserted at one of the Instants is
\* older than maxAge.
Horizon == LastInstant + maxAge * MsPerSecond

\* A frame at the horizon.  The pointer events all lie at the Instants, and
\* the pointer has been released by then.
LateFrame ==
    /\ ~isMouseDown
    /\ Frame(Horizon, Horizon)

\* A frame callback is pending and can run with this timestamp, later than
\* that of the frame before.
FrameDue(timestamp) ==
    /\ app.rafPending
    /\ timestamp > frameTime
    /\ timestamp = Horizon => ~isMouseDown

\* A frame whose timestamp is later than that of the frame before.  The
\* frame is the only step that changes frameTime, and whenever FrameDue holds
\* Frame (or LateFrame) can run with that timestamp, so the step is told by
\* what it does to frameTime.
FrameAdvance ==
    \E timestamp \in Instants \cup {Horizon} :
        /\ FrameDue(timestamp)
        /\ frameTime' = timestamp

\* The handlers of the running page, each frame callback running at its
\* timestamp.
NextFrames ==
    \/ \E pos \in Positions, t \in Instants : PointerDown(pos, t)
    \/ \E pos \in Positions : PointerMove(pos)
    \/ PointerUp
    \/ PointerLeave
    \/ \E timestamp \in Instants : Frame(timestamp, timestamp)
    \/ LateFrame

\* requestAnimationFrame calls the pending callback at the next repaint, with
\* the time of that repaint: while the page is shown a pending frame is not
\* put off for ever.
SpecFrames == Init /\ [][NextFrames]_vars /\ WF_frameTime(FrameAdvance)

----------------------------------------------------------------------------
\* Properties of the ripple manager and of the frame.

ActiveSlots(m) == {i \in Slots : m.ripples[i].active}

\* The k-th active slot (k = 0, 1, ...) in increasing slot index.
KthActive(m, k) ==
    CHOOSE i \in ActiveSlots(m) : Cardinality({j \in ActiveSlots(m) : j < i}) = k

IsUpdate(op) == op.op = "update"

IsAddRipple(op) == op.op = "addRipple"

\* C1: the active count update returns is between 0 and the capacity, and the
\* pool and the dense buffer always hold exactly capacity records.
C1_CountWithinCapacity ==
    /\ rm.activeRippleCount \in 0 .. maxRipples
    /\ DOMAIN rm.ripples = Slots
    /\ DOMAIN rm.rippleData = Slots
    /\ IsUpdate(lastOp) => rm.activeRippleCount = Cardinality(ActiveSlots(rm))

\* An update that found every slot of the pool live.
C1_Witness ==
    /\ IsUpdate(lastOp)
    /\ rm.activeRippleCount = maxRipples

\* C2: an addRipple whose timestamp is less than minRippleInterval after
\* lastRippleTime changes nothing: pool, cursor, lastRippleTime, dense buffer.
C2_RateLimitedInsertIsDropped ==
    [][(IsAddRipple(lastOp') /\ lastOp'.t - rm.lastRippleTime < minRippleInterval)
         => rm' = rm]_vars

\* An addRipple that came a positive time, less than the interval, after the
\* last accepted one, into a pool that holds a live record.
C2_Witness ==
    /\ IsAddRipple(lastOp)
    /\ lastOp.t > rm.lastRippleTime
    /\ lastOp.t - rm.lastRippleTime < minRippleInterval
    /\ ActiveSlots(rm) # {}

\* C3: an addRipple that passes the rate limit writes exactly the slot at the
\* cursor with (x, y, timestamp, 1.0, active), leaves the other slots and the
\* dense buffer alone, advances the cursor circularly and records the
\* timestamp; the slot it writes is a least recently written one (no slot has
\* an older startTime), whatever slots are inactive.
C3_AcceptedInsertOverwritesCursorSlot ==
    [][(IsAddRipple(lastOp') /\ lastOp'.t - rm.lastRippleTime >= minRippleInterval)
         => /\ rm'.ripples[rm.nextRippleIndex] =
                  [x |-> lastOp'.x, y |-> lastOp'.y, startTime |-> lastOp'.t,
                   strength |-> StrengthOne, active |-> TRUE]
            /\ \A i \in Slots \ {rm.nextRippleIndex} : rm'.ripples[i] = rm.ripples[i]
            /\ rm'.nextRippleIndex = (rm.nextRippleIndex + 1) % maxRipples
            /\ rm'.lastRippleTime = lastOp'.t
            /\ rm'.rippleData = rm.rippleData
            /\ rm'.activeRippleCount = rm.activeRippleCount
            /\ \A i \in Slots :
                  rm.ripples[rm.nextRippleIndex].startTime <= rm.ripples[i].startTime]_vars

\* An accepted addRipple, after the cursor has wrapped, that wrote a slot while
\* a slot of lower index was inactive.
C3_Witness ==
    /\ IsAddRipple(lastOp)
    /\ lastOp.t = rm.lastRippleTime
    /\ \A i \in Slots : rm.ripples[i].startTime > 0
    /\ \E i, j \in Slots :
          /\ j < i
          /\ rm.ripples[i].startTime = lastOp.t
          /\ ~rm.ripples[j].active

\* C4: an update at which an active record has age >= maxAge leaves the record
\* inactive with strength 0, and no dense record is a copy of it.
C4_ExpiredRecordIsDeactivated ==
    [][IsUpdate(lastOp')
         => \A i \in Slots :
               (rm.ripples[i].active
                  /\ lastOp'.t - rm.ripples[i].startTime >= maxAge * MsPerSecond)
               => /\ ~rm'.ripples[i].active
                  /\ rm'.ripples[i].strength = 0
                  /\ \A k \in 0 .. (rm'.activeRippleCount - 1) :
                        rm'.rippleData[k].startTime.num # rm.ripples[i].startTime]_vars

\* An update at which a record was exactly maxAge old, while another record
\* stayed live.
C4_Witness ==
    /\ IsUpdate(lastOp)
    /\ rm.activeRippleCount > 0
    /\ \E i \in Slots :
          /\ rm.ripples[i].startTime > 0
          /\ lastOp.t - rm.ripples[i].startTime = maxAge * MsPerSecond
          /\ ~rm.ripples[i].active
          /\ rm.ripples[i].strength = 0

\* C5: every slot of the dense buffer from activeCount on has strength 0.
C5_TrailingStrengthIsZero ==
    \A i \in Slots :
        i >= rm.activeRippleCount => rm.rippleData[i].strength = F32Zero

\* After an update, a dense slot past activeCount that still holds the
\* position and start time of a record an earlier update packed there.
C5_Witness ==
    /\ IsUpdate(lastOp)
    /\ \E i \in Slots :
          /\ i >= rm.activeRippleCount
          /\ rm.rippleData[i].startTime.num > 0
          /\ rm.rippleData[i].strength = F32Zero

\* C6: after an update the first activeCount dense records are the records
\* active in the pool, each stored as (x, y, strength, startTime), in
\* increasing slot index.
C6_DenseIsActiveRecordsInSlotOrder ==
    IsUpdate(lastOp)
      => /\ rm.activeRippleCount = Cardinality(ActiveSlots(rm))
         /\ \A k \in 0 .. (rm.activeRippleCount - 1) :
               rm.rippleData[k] = PackRipple(rm.ripples[KthActive(rm, k)])

\* After an update, two dense records of which the first was inserted later
\* than the second, and a dense record that is not at its pool index.
C6_Witness ==
    /\ IsUpdate(lastOp)
    /\ rm.activeRippleCount = 2
    /\ rm.rippleData[0].startTime.num > rm.rippleData[1].startTime.num
    /\ rm.rippleData[0].x # rm.rippleData[1].x

\* C7: a frame calls, in this order, addRipple (when the pointer is pressed),
\* update, the write of the dense buffer, the write of the uniforms and the
\* submission; what the draw reads is the dense buffer, the active count and
\* the time of that update, and the pool at the submission is the pool the
\* update left.
C7_FrameOrderAndSnapshot ==
    lastOp.op = "frame"
      => /\ lastOp.calls =
               (IF isMouseDown THEN <<"addRipple">> ELSE <<>>)
                 \o <<"update", "writeRipples", "writeUniforms", "submit">>
         /\ gpu.drawn = <<[ripples  |-> rm.rippleData,
                           uniforms |-> <<F32(lastOp.t, MsPerSecond), AspectRatio,
                                          F32(rm.activeRippleCount, 1), F32Zero>>,
                           pool     |-> rm.ripples]>>
         /\ rm.activeRippleCount = Cardinality(ActiveSlots(rm))
         /\ \A i \in Slots :
               (rm.ripples[i].active /\ rm.ripples[i].startTime = lastOp.t)
                 => \E k \in 0 .. (rm.activeRippleCount - 1) :
                       rm.rippleData[k] = PackRipple(rm.ripples[i])

\* A frame with the pointer pressed whose insertion was accepted and drawn.
C7_Witness ==
    /\ lastOp.op = "frame"
    /\ isMouseDown
    /\ rm.lastRippleTime = lastOp.t
    /\ rm.activeRippleCount = maxRipples
    /\ \E i \in Slots : rm.ripples[i].active /\ rm.ripples[i].startTime = lastOp.t

\* C8: an update with the timestamp of the update just before it returns the
\* same count and dense buffer and leaves the pool as it was.
C8_UpdateIsIdempotent ==
    [][(IsUpdate(lastOp) /\ IsUpdate(lastOp') /\ lastOp'.t = lastOp.t) => rm' = rm]_vars

\* A repeated update of a pool with a live record and a record the first
\* update retired.
C8_Witness ==
    /\ IsUpdate(lastOp)
    /\ lastOp.again
    /\ rm.activeRippleCount > 0
    /\ \E i \in Slots : ~rm.ripples[i].active /\ rm.ripples[i].startTime > 0

\* C9: fresh ledger, insert (0.5, 0.5) at t = 0, tick at 0: one dense record,
\* strength 1.0 at (0.5, 0.5); then tick at maxAge: none active.
C9_OneRippleScenario ==
    /\ scen = 2 =>
          /\ rm.activeRippleCount = 1
          /\ rm.rippleData[0].x = [num |-> 500, exact |-> TRUE]
          /\ rm.rippleData[0].y = [num |-> 500, exact |-> TRUE]
          /\ rm.rippleData[0].strength = [num |-> StrengthOne, exact |-> TRUE]
    /\ scen = 3 =>
          /\ rm.activeRippleCount = 0
          /\ ActiveSlots(rm) = {}

\* C10: after capacity + 2 addRipple calls, each at least minRippleInterval
\* after the one before and with no update between, every slot is live and the
\* pool holds the last capacity calls and neither of the first two.
C10_PoolKeepsMostRecent ==
    (inserts.on /\ Len(inserts.calls) = maxRipples + 2)
      => /\ ActiveSlots(rm) = Slots
         /\ \A k \in 3 .. (maxRipples + 2) :
               \E i \in Slots :
                  rm.ripples[i] = [x |-> inserts.calls[k].x, y |-> inserts.calls[k].y,
                                   startTime |-> inserts.calls[k].t,
                                   strength |-> StrengthOne, active |-> TRUE]
         /\ \A k \in 1 .. 2, i \in Slots :
               rm.ripples[i].startTime # inserts.calls[k].t

\* Capacity + 2 accepted insertions: the first two were written and then
\* overwritten.
C10_Witness ==
    /\ inserts.on
    /\ Len(inserts.calls) = maxRipples + 2
    /\ inserts.calls[1].t >= minRippleInterval

\* The record of slot i was kept by the latest update and has not been
\* overwritten since: the dense buffer still holds its copy.
KeptByLatestUpdate(m, i) ==
    /\ m.ripples[i].active
    /\ \E k \in 0 .. (m.activeRippleCount - 1) : m.rippleData[k] = PackRipple(m.ripples[i])

\* C11: every record an update keeps has strength 1 - age / maxAge, which is
\* positive and is <= 0 exactly from age = maxAge on; an update whose timestamp
\* is not before that of the update before it does not raise the strength of a
\* record that update kept and that was not overwritten.
C11_StrengthIsAffineAndNonIncreasing ==
    [][IsUpdate(lastOp')
         => /\ \A i \in Slots :
                  rm'.ripples[i].active
                    => /\ rm'.ripples[i].strength =
                             StrengthOne - (lastOp'.t - rm'.ripples[i].startTime)
                       /\ rm'.ripples[i].strength > 0
                       /\ lastOp'.t - rm'.ripples[i].startTime < maxAge * MsPerSecond
            /\ \A s \in Instants :
                  (Strength(lastOp'.t - s) <= 0) <=> (lastOp'.t - s >= maxAge * MsPerSecond)
            /\ (lastOp.updated >= 0 /\ lastOp'.t >= lastOp.updated)
                  => \A i \in Slots :
                        KeptByLatestUpdate(rm, i)
                          => rm'.ripples[i].strength <= rm.ripples[i].strength]_vars

\* An update later than the update before it, that kept a record the earlier
\* update had kept with a higher strength.
C11_Witness ==
    /\ IsUpdate(lastOp)
    /\ lastOp.prev >= 0
    /\ lastOp.t > lastOp.prev
    /\ \E i \in Slots :
          /\ rm.ripples[i].active
          /\ rm.ripples[i].startTime <= lastOp.prev
          /\ rm.ripples[i].strength < StrengthOne - (lastOp.prev - rm.ripples[i].startTime)
          /\ rm.ripples[i].strength > 0

\* C12: when WebGPU is unavailable at startup (navigator.gpu is missing, or
\* requestAdapter returns no adapter) init() fails and the error is written to
\* the console; init() is not started again, no step follows the failure, the
\* ripple manager is never created and no frame is ever requested.
C12_NoWebGPUFailsOnceAndSurfaces ==
    [][/\ (app.pc = "initWebGPU" /\ ~app.gpuSupported)
            => /\ app'.pc = "failed"
               /\ app'.console = <<"WebGPU not supported">>
       /\ (app.pc = "requestAdapter" /\ app'.pc # "requestDevice")
            => /\ app'.pc = "failed"
               /\ app'.console = <<"No adapter found">>
       /\ app.pc # "failed"
       /\ app'.pc = "failed"
            => /\ rm' = NoRippleManager
               /\ ~app'.rafPending
               /\ gpu' = NewQueue
               /\ lastOp'.op = "new"]_vars

C12_Witness ==
    /\ app.pc = "failed"
    /\ app.console = <<"No adapter found">>
    /\ rm = NoRippleManager

\* C14: every pool record whose active flag is false has strength 0, however
\* it was retired (by age >= maxAge or by the strength threshold).
C14_InactiveRecordHasZeroStrength ==
    \A i \in Slots : ~rm.ripples[i].active => rm.ripples[i].strength = 0

\* C16: the strength of every pool record and of every dense record is in
\* [0, 1], for any interleaving of pointer presses (stamped with
\* performance.now()) and frames (stamped with the frame timestamp).
C16_StrengthWithinUnitInterval ==
    /\ \A i \in Slots :
          /\ rm.ripples[i].strength >= 0
          /\ rm.ripples[i].strength <= StrengthOne
    /\ \A k \in Slots :
          /\ rm.rippleData[k].strength.num >= 0
          /\ rm.rippleData[k].strength.num <= StrengthOne

\* The number of active ripples the draw was submitted with.
DrawnActiveCount(draw) == draw.uniforms[3].num

\* C13: calculateRipple returns 0 for a record whose strength is <= 0 (and for
\* a point beyond the radius or within the minimum radius), whatever position
\* and start time the record holds; so every slot from activeCount on adds 0
\* and the scan over the whole array equals the sum over the first activeCount
\* records.
C13_TrailingSlotsContributeNothing ==
    gpu.drawn # <<>> =>
        LET draw == gpu.drawn[1] IN
        \A uv \in SampleUVs :
            /\ \A i \in Slots :
                  (\/ draw.ripples[i].strength.num <= 0
                   \/ BeyondRadius(uv, draw.ripples[i], draw.uniforms)
                   \/ WithinMinRadius(uv, draw.ripples[i], draw.uniforms))
                    => CalculateRipple(uv, draw.ripples[i], draw.uniforms) = <<>>
            /\ \A i \in Slots :
                  i >= DrawnActiveCount(draw)
                    => CalculateRipple(uv, draw.ripples[i], draw.uniforms) = <<>>
            /\ TotalRippleDistortion(uv, draw)
                 = RippleLoop(<<>>, uv, draw, 0, DrawnActiveCount(draw))

\* A draw whose first record adds a term at some point while a trailing slot
\* still holds the position and start time of a retired ripple that the point
\* is within the radius of.
C13_Witness ==
    /\ gpu.drawn # <<>>
    /\ LET draw == gpu.drawn[1] IN
       \E uv \in SampleUVs :
          /\ DrawnActiveCount(draw) >= 1
          /\ TotalRippleDistortion(uv, draw) # <<>>
          /\ \E i \in Slots :
                /\ i >= DrawnActiveCount(draw)
                /\ draw.ripples[i].startTime.num > 0
                /\ ~BeyondRadius(uv, draw.ripples[i], draw.uniforms)
                /\ ~WithinMinRadius(uv, draw.ripples[i], draw.uniforms)

\* C15 as stated: every accepted insertion is caused by a pointer press or by
\* a pointer move while pressed; nothing is inserted while the pointer is
\* released, and while it is held pressed with no pointer move since the last
\* insertion no further ripple is inserted.
C15_InsertionNeedsPressOrMove ==
    [][lastOp'.inserted
         => /\ (isMouseDown \/ lastOp'.op = "pointerdown")
            /\ (lastOp'.op = "pointerdown" \/ ~lastOp.held)]_vars

\* C15 amended: an insertion is accepted only by the pointerdown handler or by
\* a frame that runs while the pointer is pressed, so nothing is inserted while
\* the pointer is released; pointermove inserts nothing, it only stores the
\* position; and every frame that runs while the pointer is pressed and is not
\* rate limited inserts a ripple at the last stored position with the frame's
\* timestamp, whether the pointer has moved since the last insertion or not.
C15_FramesInsertWhilePressed ==
    [][/\ lastOp'.inserted
            => \/ lastOp'.op = "pointerdown"
               \/ (lastOp'.op = "frame" /\ isMouseDown)
       /\ lastOp'.op = "pointermove" => (~lastOp'.inserted /\ rm' = rm)
       /\ (lastOp'.op = "frame" /\ isMouseDown /\ ~RateLimited(rm, lastOp'.t))
            => /\ lastOp'.inserted
               /\ rm'.nextRippleIndex = (rm.nextRippleIndex + 1) % maxRipples
               /\ rm'.ripples[rm.nextRippleIndex].x = lastMouse[1]
               /\ rm'.ripples[rm.nextRippleIndex].y = lastMouse[2]
               /\ rm'.ripples[rm.nextRippleIndex].startTime = lastOp'.t]_vars

\* A frame has inserted a ripple while the pointer was held pressed and had
\* not moved since the insertion before.
C15_Witness ==
    /\ lastOp.op = "frame"
    /\ lastOp.inserted
    /\ lastOp.heldBefore
    /\ isMouseDown

\* C18: the frame loop is stoppable at the frame boundary: when a frame has
\* completed there is a cancellation step, one that leaves no frame callback
\* pending, so that no further frame step (insert, tick, buffer write, submit)
\* runs after it, the buffers holding what the completed frame wrote.
C18_LoopIsStoppable ==
    (app.pc = "running" /\ lastOp.op = "frame") =>
        ENABLED (/\ app' = RunAnimationFrame(app)
                 /\ gpu' = gpu
                 /\ NextApp)

AllInactive(m) == \A i \in Slots : ~m.ripples[i].active

\* Every pool record is inactive and the latest update returned
\* activeCount = 0.
AllRetired ==
    /\ AllInactive(rm)
    /\ rm.activeRippleCount = 0

\* C17: every ripple is eventually retired.  While frames keep occurring with
\* increasing timestamps, from any state with the pointer released (no
\* insertion is accepted while it stays released) a state is reached where
\* every pool record is inactive and the latest update returned
\* activeCount = 0, unless the pointer is pressed again first; and once every record is
\* inactive every step that accepts no insertion leaves it so, each frame's
\* update returning 0.
C17_EveryRippleIsEventuallyRetired ==
    /\ (~isMouseDown) ~> (AllRetired \/ isMouseDown)
    /\ [][(AllInactive(rm) /\ ~lastOp'.inserted)
            => /\ AllInactive(rm')
               /\ (lastOp'.op = "frame" => rm'.activeRippleCount = 0)]_vars

\* A frame after which every record is retired although ripples had been
\* inserted, two of them still active at the frame before.
C17_Witness ==
    /\ AllRetired
    /\ lastOp.op = "frame"
    /\ ~isMouseDown
    /\ \A i \in Slots : rm.ripples[i].startTime > 0
    /\ gpu.drawn[1].uniforms[3].num = 0
    /\ lastOp.t > Horizon - maxAge * MsPerSecond

====
